---- MODULE Spec2Model ----
(***************************************************************************)
(* TreeExplorer (src/index.tsx): the incremental BST builder, the          *)
(* traversal engine and the timer-driven playback held in the App          *)
(* component's state.                                                      *)
(*                                                                         *)
(* A text is a sequence of one-character strings.  A tree is either Null   *)
(* or a record [id, value, isNew, left, right]; an absent child is Null.   *)
(* A timer set by an effect is a record that holds what its callback       *)
(* captured; an effect whose dependencies change clears its timer and      *)
(* runs again, so every handler ends by recomputing both timers.           *)
(***************************************************************************)
EXTENDS Integers, Sequences, FiniteSets, TLC

VARIABLES
    activeTab,          \* useState('intro')
    traversalType,      \* useState('preorder')
    traversalStep,      \* useState(-1)
    visited,            \* useState<string[]>([])
    userInput,          \* useState('50, 30, 70, 20, 40, 60, 80')
    customTree,         \* useState<NodeData | null>(null)
    isConstructing,     \* useState(false)
    constructionQueue,  \* useState<number[]>([])
    idCounter,          \* idCounterRef.current.current
    constructionTimer,  \* the setTimeout pending in the construction effect
    traversalTimer,     \* the setTimeout pending in the traversal effect
    last,               \* history: the last step taken and what held before it
    ticks,              \* history: traversal ticks of the current undisturbed run, or -1
    afterReset,         \* history: what the last reset interrupted, "no" once a start request came
    buildTicks,         \* history: construction callbacks run since the last accepted start-build
    issued,             \* history, kept where switched on: the <<id, value, path>> of
                        \* every node created so far, and of those of this build session
    revealed            \* history, kept where switched on: the ids that traversal ticks
                        \* over the custom tree have appended since the last accepted
                        \* start-build or reset

vars == <<activeTab, traversalType, traversalStep, visited, userInput, customTree,
          isConstructing, constructionQueue, idCounter, constructionTimer,
          traversalTimer, last, ticks, afterReset, buildTicks, issued, revealed>>

-----------------------------------------------------------------------------
(* Bounds of the exploration *)

MaxLen == 4         \* longest value list drawn for a build in SpecBuild
MaxVal == 2         \* values drawn for a build in SpecBuild are -1..MaxVal

-----------------------------------------------------------------------------
(* Trees *)

Null == [null |-> TRUE]

Leaf(id, value) == [id |-> id, value |-> value, left |-> Null, right |-> Null]

Branch(id, value, l, r) == [id |-> id, value |-> value, left |-> l, right |-> r]

BinaryPreset ==
    Branch("1", 10,
           Branch("2", 5, Leaf("4", 2), Leaf("5", 7)),
           Branch("3", 15, Leaf("6", 12), Leaf("7", 20)))

Tabs == {"intro", "types", "traversals", "advanced", "applications"}

TraversalTypes == {"preorder", "inorder", "postorder"}

DigitChars == <<"0", "1", "2", "3", "4", "5", "6", "7", "8", "9">>

(* Number.prototype.toString in radix 10 *)
RECURSIVE toString(_)
toString(n) ==
    IF n < 0 THEN "-" \o toString(0 - n)
    ELSE IF n < 10 THEN DigitChars[n + 1]
    ELSE toString(n \div 10) \o DigitChars[(n % 10) + 1]

RECURSIVE clearNewFlags(_)
clearNewFlags(node) ==
    [node EXCEPT !.isNew = FALSE,
                 !.left = IF node.left # Null THEN clearNewFlags(node.left) ELSE Null,
                 !.right = IF node.right # Null THEN clearNewFlags(node.right) ELSE Null]

(* insertBSTImmutable with the two comparisons exchanged *)
RECURSIVE insertBSTImmutable_swapped(_, _, _)
insertBSTImmutable_swapped(root, val, counter) ==
    IF root = Null
    THEN [node |-> [id |-> toString(counter), value |-> val, isNew |-> TRUE,
                    left |-> Null, right |-> Null],
          counter |-> counter + 1]
    ELSE LET newNode == [root EXCEPT !.isNew = FALSE]
         IN  IF val > root.value
             THEN LET r == insertBSTImmutable_swapped(root.left, val, counter)
                  IN  [node |-> [newNode EXCEPT !.left = r.node], counter |-> r.counter]
             ELSE IF val < root.value
             THEN LET r == insertBSTImmutable_swapped(root.right, val, counter)
                  IN  [node |-> [newNode EXCEPT !.right = r.node], counter |-> r.counter]
             ELSE [node |-> newNode, counter |-> counter]

(* insertBSTImmutable reading the counter without advancing it *)
RECURSIVE insertBSTImmutable_noIncrement(_, _, _)
insertBSTImmutable_noIncrement(root, val, counter) ==
    IF root = Null
    THEN [node |-> [id |-> toString(counter), value |-> val, isNew |-> TRUE,
                    left |-> Null, right |-> Null],
          counter |-> counter]
    ELSE LET newNode == [root EXCEPT !.isNew = FALSE]
         IN  IF val < root.value
             THEN LET r == insertBSTImmutable_noIncrement(root.left, val, counter)
                  IN  [node |-> [newNode EXCEPT !.left = r.node], counter |-> r.counter]
             ELSE IF val > root.value
             THEN LET r == insertBSTImmutable_noIncrement(root.right, val, counter)
                  IN  [node |-> [newNode EXCEPT !.right = r.node], counter |-> r.counter]
             ELSE [node |-> newNode, counter |-> counter]

(* insertBSTImmutable putting the new node in place of the child, not into it *)
RECURSIVE insertBSTImmutable_overwrite(_, _, _)
insertBSTImmutable_overwrite(root, val, counter) ==
    IF root = Null
    THEN [node |-> [id |-> toString(counter), value |-> val, isNew |-> TRUE,
                    left |-> Null, right |-> Null],
          counter |-> counter + 1]
    ELSE LET newNode == [root EXCEPT !.isNew = FALSE]
         IN  IF val < root.value
             THEN LET r == insertBSTImmutable_overwrite(Null, val, counter)
                  IN  [node |-> [newNode EXCEPT !.left = r.node], counter |-> r.counter]
             ELSE IF val > root.value
             THEN LET r == insertBSTImmutable_overwrite(Null, val, counter)
                  IN  [node |-> [newNode EXCEPT !.right = r.node], counter |-> r.counter]
             ELSE [node |-> newNode, counter |-> counter]

(* insertBSTImmutable sending ties to the left, as the page's Python text does *)
RECURSIVE insertBSTImmutable_tiesLeft(_, _, _)
insertBSTImmutable_tiesLeft(root, val, counter) ==
    IF root = Null
    THEN [node |-> [id |-> toString(counter), value |-> val, isNew |-> TRUE,
                    left |-> Null, right |-> Null],
          counter |-> counter + 1]
    ELSE LET newNode == [root EXCEPT !.isNew = FALSE]
         IN  IF val > root.value
             THEN LET r == insertBSTImmutable_tiesLeft(root.right, val, counter)
                  IN  [node |-> [newNode EXCEPT !.right = r.node], counter |-> r.counter]
             ELSE LET r == insertBSTImmutable_tiesLeft(root.left, val, counter)
                  IN  [node |-> [newNode EXCEPT !.left = r.node], counter |-> r.counter]

(* The result is the returned node together with the allocator's counter   *)
(* after the call.                                                         *)
RECURSIVE insertBSTImmutable(_, _, _)
insertBSTImmutable(root, val, counter) ==
    IF root = Null
    THEN [node |-> [id |-> toString(counter), value |-> val, isNew |-> TRUE,
                    left |-> Null, right |-> Null],
          counter |-> counter + 1]
    ELSE LET newNode == [root EXCEPT !.isNew = FALSE]
         IN  IF val < root.value
             THEN LET r == insertBSTImmutable(root.left, val, counter)
                  IN  [node |-> [newNode EXCEPT !.left = r.node], counter |-> r.counter]
             ELSE IF val > root.value
             THEN LET r == insertBSTImmutable(root.right, val, counter)
                  IN  [node |-> [newNode EXCEPT !.right = r.node], counter |-> r.counter]
             ELSE [node |-> newNode, counter |-> counter]

(* walk without the descent into the right child *)
RECURSIVE walk_skipRight(_, _)
walk_skipRight(n, type) ==
    IF n = Null THEN <<>>
    ELSE (IF type = "preorder" THEN <<n.id>> ELSE <<>>)
         \o walk_skipRight(n.left, type)
         \o (IF type = "inorder" THEN <<n.id>> ELSE <<>>)
         \o (IF type = "postorder" THEN <<n.id>> ELSE <<>>)

(* walk descending into the right child before the left *)
RECURSIVE walk_rightFirst(_, _)
walk_rightFirst(n, type) ==
    IF n = Null THEN <<>>
    ELSE (IF type = "preorder" THEN <<n.id>> ELSE <<>>)
         \o walk_rightFirst(n.right, type)
         \o (IF type = "inorder" THEN <<n.id>> ELSE <<>>)
         \o walk_rightFirst(n.left, type)
         \o (IF type = "postorder" THEN <<n.id>> ELSE <<>>)

RECURSIVE walk(_, _)
walk(n, type) ==
    IF n = Null THEN <<>>
    ELSE (IF type = "preorder" THEN <<n.id>> ELSE <<>>)
         \o walk(n.left, type)
         \o (IF type = "inorder" THEN <<n.id>> ELSE <<>>)
         \o walk(n.right, type)
         \o (IF type = "postorder" THEN <<n.id>> ELSE <<>>)

getTraversalOrder(node, type) == IF node = Null THEN <<>> ELSE walk(node, type)

-----------------------------------------------------------------------------
(* Layout.  A coordinate is a fraction [n, d] with d > 0, so that halves   *)
(* and thirds of a span are exact.  Preset nodes carry only the fields     *)
(* their literals have.                                                    *)

TREE_PRESETS ==
    [binary |-> BinaryPreset,
     general |->
        [id |-> "g1", value |-> "R",
         children |->
            <<[id |-> "g2", value |-> "A",
               children |-> <<[id |-> "g5", value |-> "D"], [id |-> "g6", value |-> "E"],
                              [id |-> "g7", value |-> "F"]>>],
              [id |-> "g3", value |-> "B"],
              [id |-> "g4", value |-> "C", children |-> <<[id |-> "g8", value |-> "G"]>>]>>],
     ternary |->
        [id |-> "t1", value |-> 1, left |-> Leaf("t2", 2), middle |-> Leaf("t3", 3),
         right |-> Leaf("t4", 4)],
     full |->
        Branch("f1", 1, Branch("f2", 2, Leaf("f4", 4), Leaf("f5", 5)), Leaf("f3", 3)),
     complete |->
        Branch("c1", 1, Branch("c2", 2, Leaf("c4", 4), Leaf("c5", 5)),
                        Branch("c3", 3, Leaf("c6", 6), Null)),
     perfect |->
        Branch("p1", 1, Branch("p2", 2, Leaf("p4", 4), Leaf("p5", 5)),
                        Branch("p3", 3, Leaf("p6", 6), Leaf("p7", 7))),
     skewed |->
        Branch("s1", 1, Null,
               Branch("s2", 2, Null, Branch("s3", 3, Null, Leaf("s4", 4)))),
     balanced |->
        Branch("b1", 1, Branch("b2", 2, Leaf("b4", 4), Null), Leaf("b3", 3))]

(* the presets the Tree Types section draws with MiniTreeVisualizer *)
GalleryKeys ==
    {"general", "binary", "ternary", "full", "complete", "perfect", "skewed", "balanced"}

MiniCanvasWidth == 200

CanvasWidth == 600

Frac(n, d) == [n |-> n, d |-> d]

FracOfInt(k) == Frac(k, 1)

FracAdd(a, b) == Frac(a.n * b.d + b.n * a.d, a.d * b.d)

FracSub(a, b) == Frac(a.n * b.d - b.n * a.d, a.d * b.d)

FracTimesInt(a, k) == Frac(a.n * k, a.d)

FracDivInt(a, k) == Frac(a.n, a.d * k)

FracLessEq(a, b) == a.n * b.d <= b.n * a.d

(* node.f of an optional field: Null where the node has none *)
Child(node, f) == IF f \in DOMAIN node THEN node[f] ELSE Null

(* A positioned node keeps id, x, y and its positioned children, and       *)
(* records the span xStart..xEnd it was laid out in.                       *)
Positioned(node, x, y, xStart, xEnd, l, m, r, children) ==
    [id |-> node.id, x |-> x, y |-> y, xStart |-> xStart, xEnd |-> xEnd,
     left |-> l, middle |-> m, right |-> r, children |-> children]

(* MiniTreeVisualizer.calculatePositions *)
RECURSIVE MiniCalculatePositions(_, _, _, _)
MiniCalculatePositions(node, depth, xStart, xEnd) ==
    LET x == FracDivInt(FracAdd(xStart, xEnd), 2)
        y == depth * 40 + 30
    IN  IF "children" \in DOMAIN node
        THEN LET step == FracDivInt(FracSub(xEnd, xStart), Len(node.children))
             IN  Positioned(node, x, y, xStart, xEnd, Null, Null, Null,
                    [i \in 1..Len(node.children) |->
                        MiniCalculatePositions(node.children[i], depth + 1,
                            FracAdd(xStart, FracTimesInt(step, i - 1)),
                            FracAdd(xStart, FracTimesInt(step, i)))])
        ELSE Positioned(node, x, y, xStart, xEnd,
                IF Child(node, "left") # Null
                THEN MiniCalculatePositions(node.left, depth + 1, xStart, x) ELSE Null,
                IF Child(node, "middle") # Null
                THEN MiniCalculatePositions(node.middle, depth + 1,
                        FracSub(FracDivInt(FracAdd(xStart, xEnd), 2), FracOfInt(15)),
                        FracAdd(FracDivInt(FracAdd(xStart, xEnd), 2), FracOfInt(15)))
                ELSE Null,
                IF Child(node, "right") # Null
                THEN MiniCalculatePositions(node.right, depth + 1, x, xEnd) ELSE Null,
                <<>>)

(* TreeVisualizer.calculatePositions *)
RECURSIVE calculatePositions(_, _, _, _)
calculatePositions(node, depth, xStart, xEnd) ==
    LET x == FracDivInt(FracAdd(xStart, xEnd), 2)
        y == depth * 70 + 60
    IN  Positioned(node, x, y, xStart, xEnd,
            IF node.left # Null THEN calculatePositions(node.left, depth + 1, xStart, x)
            ELSE Null,
            Null,
            IF node.right # Null THEN calculatePositions(node.right, depth + 1, x, xEnd)
            ELSE Null,
            <<>>)

(* useMemo(() => calculatePositions(data, 0, 0, canvasWidth), [data]) *)
MiniTree(data) ==
    MiniCalculatePositions(data, 0, FracOfInt(0), FracOfInt(MiniCanvasWidth))

TreeWithPos(data) == calculatePositions(data, 0, FracOfInt(0), FracOfInt(CanvasWidth))

-----------------------------------------------------------------------------
(* Parsing the input text: split(','), trim, parseInt, filter out NaN *)

Whitespace == {" "}

NaN == [nan |-> TRUE, n |-> 0]

Number(n) == [nan |-> FALSE, n |-> n]

isNaN(v) == v.nan

IsDigit(c) == \E i \in 1..10 : DigitChars[i] = c

DigitValue(c) == (CHOOSE i \in 1..10 : DigitChars[i] = c) - 1

RECURSIVE split(_, _)
split(s, sep) ==
    IF \A i \in 1..Len(s) : s[i] # sep THEN <<s>>
    ELSE LET i == CHOOSE k \in 1..Len(s) : s[k] = sep /\ \A j \in 1..(k - 1) : s[j] # sep
         IN  <<SubSeq(s, 1, i - 1)>> \o split(SubSeq(s, i + 1, Len(s)), sep)

RECURSIVE trimStart(_)
trimStart(s) == IF s # <<>> /\ s[1] \in Whitespace THEN trimStart(Tail(s)) ELSE s

RECURSIVE trimEnd(_)
trimEnd(s) ==
    IF s # <<>> /\ s[Len(s)] \in Whitespace THEN trimEnd(SubSeq(s, 1, Len(s) - 1)) ELSE s

trim(s) == trimEnd(trimStart(s))

RECURSIVE DigitPrefix(_)
DigitPrefix(s) == IF s # <<>> /\ IsDigit(s[1]) THEN <<s[1]>> \o DigitPrefix(Tail(s)) ELSE <<>>

RECURSIVE DigitsValue(_)
DigitsValue(ds) ==
    IF ds = <<>> THEN 0 ELSE 10 * DigitsValue(SubSeq(ds, 1, Len(ds) - 1)) + DigitValue(ds[Len(ds)])

(* parseInt in radix 10: leading white space, an optional sign, then the   *)
(* longest run of digits; whatever follows is ignored; no digit gives NaN. *)
parseInt(s) ==
    LET t == trimStart(s)
        signed == t # <<>> /\ t[1] \in {"-", "+"}
        sign == IF t # <<>> /\ t[1] = "-" THEN -1 ELSE 1
        digits == DigitPrefix(IF signed THEN Tail(t) ELSE t)
    IN  IF digits = <<>> THEN NaN ELSE Number(sign * DigitsValue(digits))

RECURSIVE MapParse(_)
MapParse(toks) ==
    IF toks = <<>> THEN <<>> ELSE <<parseInt(trim(Head(toks)))>> \o MapParse(Tail(toks))

RECURSIVE FilterNumbers(_)
FilterNumbers(vs) ==
    IF vs = <<>> THEN <<>>
    ELSE (IF ~isNaN(Head(vs)) THEN <<Head(vs).n>> ELSE <<>>) \o FilterNumbers(Tail(vs))

ParseValues(text) == FilterNumbers(MapParse(split(text, ",")))

-----------------------------------------------------------------------------
(* Input texts *)

DefaultInput ==
    <<"5", "0", ",", " ", "3", "0", ",", " ", "7", "0", ",", " ", "2", "0", ",", " ",
      "4", "0", ",", " ", "6", "0", ",", " ", "8", "0">>

EmptyInput == <<>>

InvalidInput == <<"a", "b", "c", ",", " ", ",", ",">>

ScenarioInput ==
    <<"5", "0", ",", " ", "3", "0", ",", " ", "7", "0", ",", " ", "2", "0">>

DuplicateInput == <<"2", ",", "1", ",", " ", "2", " ", ",", "x", ",", "-", "3", "y">>

InputTexts == {DefaultInput, EmptyInput, InvalidInput, ScenarioInput, DuplicateInput}

(* The text a user types for a list of integers: "v1, v2, ..." *)
RECURSIVE NumberChars(_)
NumberChars(n) ==
    IF n < 0 THEN <<"-">> \o NumberChars(0 - n)
    ELSE IF n < 10 THEN <<DigitChars[n + 1]>>
    ELSE NumberChars(n \div 10) \o <<DigitChars[(n % 10) + 1]>>

RECURSIVE FormatList(_)
FormatList(vs) ==
    IF Len(vs) = 1 THEN NumberChars(vs[1])
    ELSE NumberChars(vs[1]) \o <<",", " ">> \o FormatList(Tail(vs))

BuildValues == (-1)..MaxVal

BuildLists == UNION {[1..n -> BuildValues] : n \in 1..MaxLen}

-----------------------------------------------------------------------------
(* Effects: the timer each effect leaves pending for the committed state *)

NoConstructionTimer == [kind |-> "none", nextVal |-> 0]

NoTraversalTimer == [pending |-> FALSE, id |-> ""]

(* the construction effect capturing the last queued value, not the first *)
ConstructionEffect_lastValue(constructing, queue) ==
    IF constructing /\ Len(queue) > 0
    THEN [kind |-> "insert", nextVal |-> queue[Len(queue)]]
    ELSE IF constructing /\ Len(queue) = 0
    THEN [kind |-> "settle", nextVal |-> 0]
    ELSE NoConstructionTimer

ConstructionEffect(constructing, queue) ==
    IF constructing /\ Len(queue) > 0
    THEN [kind |-> "insert", nextVal |-> queue[1]]
    ELSE IF constructing /\ Len(queue) = 0
    THEN [kind |-> "settle", nextVal |-> 0]
    ELSE NoConstructionTimer

SourceTree(tab, tree) == IF tab = "traversals" THEN BinaryPreset ELSE tree

(* the bound test with the last index left out *)
StepInBounds_offByOne(step, order) == step < Len(order) - 1

(* traversalStep < order.length *)
StepInBounds(step, order) == step < Len(order)

TraversalEffect(step, type, tab, tree) ==
    IF step >= 0
    THEN LET order == getTraversalOrder(SourceTree(tab, tree), type)
         IN  IF StepInBounds(step, order)
             THEN [pending |-> TRUE, id |-> order[step + 1]]
             ELSE NoTraversalTimer
    ELSE NoTraversalTimer

(* the construction effect without its clearTimeout *)
ConstructionCleanup_missing(timer) == timer

(* return () => clearTimeout(timer), of the construction effect *)
ConstructionCleanup(timer) == NoConstructionTimer

(* return () => clearTimeout(timer), of the traversal effect *)
TraversalCleanup(timer) == NoTraversalTimer

(* the <<id, value, path>> of the nodes of a tree; a path is the sequence  *)
(* of sides leading from the root to the node                              *)
RECURSIVE NodeTriples(_, _)
NodeTriples(t, path) ==
    IF t = Null THEN {}
    ELSE {<<t.id, t.value, path>>}
         \cup NodeTriples(t.left, Append(path, "L"))
         \cup NodeTriples(t.right, Append(path, "R"))

(* What every step ends with.  A state change cleans up each effect whose  *)
(* dependencies changed and runs it again: the timer it sets replaces the  *)
(* one cleared, and where it sets none the cleared one is all there is.    *)
(* (An effect that is not run again keeps its timer, which is the timer    *)
(* it would set.)  The history variables record the step.                  *)
Commit(op) ==
    /\ constructionTimer' =
          LET timer == ConstructionEffect(isConstructing', constructionQueue')
          IN  IF timer # NoConstructionTimer THEN timer
              ELSE ConstructionCleanup(constructionTimer)
    /\ traversalTimer' =
          LET timer == TraversalEffect(traversalStep', traversalType', activeTab', customTree')
          IN  IF timer # NoTraversalTimer THEN timer
              ELSE TraversalCleanup(traversalTimer)
    /\ last' = [op |-> op, building |-> isConstructing, traversing |-> traversalStep >= 0]
    /\ afterReset' =
          IF op = "reset"
          THEN (IF isConstructing THEN "building"
                ELSE IF traversalStep >= 0 THEN "traversing" ELSE "idle")
          ELSE IF op \in {"startBuild", "startTraversal"} THEN "no"
          ELSE afterReset
    /\ buildTicks' =
          IF op = "startBuild" /\ ~isConstructing /\ isConstructing' THEN 0
          ELSE IF op \in {"insertTick", "settleTick"} THEN buildTicks + 1
          ELSE buildTicks
    /\ issued' =
          IF ~issued.on THEN issued
          ELSE IF op = "startBuild" /\ ~isConstructing /\ isConstructing'
          THEN [issued EXCEPT !.session = {}]
          ELSE [issued EXCEPT !.ever = @ \cup NodeTriples(customTree', <<>>),
                              !.session = @ \cup NodeTriples(customTree', <<>>)]
    /\ revealed' =
          IF ~revealed.on THEN revealed
          ELSE IF op = "reset" \/ (op = "startBuild" /\ ~isConstructing /\ isConstructing')
          THEN [revealed EXCEPT !.ids = {}]
          ELSE IF op = "traversalTick" /\ activeTab # "traversals"
          THEN [revealed EXCEPT !.ids = @ \cup {visited'[Len(visited')]}]
          ELSE revealed

-----------------------------------------------------------------------------
(* Handlers *)

(* startTraversal without its isConstructing test *)
startTraversal_unguarded ==
    /\ traversalStep' = 0
    /\ visited' = <<>>

startTraversal ==
    IF isConstructing
    THEN UNCHANGED <<traversalStep, visited>>
    ELSE /\ traversalStep' = 0
         /\ visited' = <<>>

(* handleStartConstruction without setTraversalStep(-1) *)
handleStartConstruction_keepStep ==
    LET values == ParseValues(userInput)
    IN  IF Len(values) = 0
        THEN UNCHANGED <<customTree, traversalStep, visited, idCounter,
                         constructionQueue, isConstructing>>
        ELSE /\ customTree' = Null
             /\ UNCHANGED traversalStep
             /\ visited' = <<>>
             /\ idCounter' = 1
             /\ constructionQueue' = values
             /\ isConstructing' = TRUE

(* handleStartConstruction without the reset of idCounterRef *)
handleStartConstruction_keepCounter ==
    LET values == ParseValues(userInput)
    IN  IF Len(values) = 0
        THEN UNCHANGED <<customTree, traversalStep, visited, idCounter,
                         constructionQueue, isConstructing>>
        ELSE /\ customTree' = Null
             /\ traversalStep' = -1
             /\ visited' = <<>>
             /\ UNCHANGED idCounter
             /\ constructionQueue' = values
             /\ isConstructing' = TRUE

(* handleStartConstruction without setCustomTree(null) *)
handleStartConstruction_keepTree ==
    LET values == ParseValues(userInput)
    IN  IF Len(values) = 0
        THEN UNCHANGED <<customTree, traversalStep, visited, idCounter,
                         constructionQueue, isConstructing>>
        ELSE /\ UNCHANGED customTree
             /\ traversalStep' = -1
             /\ visited' = <<>>
             /\ idCounter' = 1
             /\ constructionQueue' = values
             /\ isConstructing' = TRUE

(* handleStartConstruction without the early return on an empty value list *)
handleStartConstruction_noCheck ==
    /\ customTree' = Null
    /\ traversalStep' = -1
    /\ visited' = <<>>
    /\ idCounter' = 1
    /\ constructionQueue' = ParseValues(userInput)
    /\ isConstructing' = TRUE

handleStartConstruction ==
    LET values == ParseValues(userInput)
    IN  IF Len(values) = 0
        THEN UNCHANGED <<customTree, traversalStep, visited, idCounter,
                         constructionQueue, isConstructing>>
        ELSE /\ customTree' = Null
             /\ traversalStep' = -1
             /\ visited' = <<>>
             /\ idCounter' = 1
             /\ constructionQueue' = values
             /\ isConstructing' = TRUE

(* handleReset without setIsConstructing(false) *)
handleReset_stillConstructing ==
    /\ customTree' = Null
    /\ constructionQueue' = <<>>
    /\ UNCHANGED isConstructing
    /\ traversalStep' = -1
    /\ visited' = <<>>

handleReset ==
    /\ customTree' = Null
    /\ constructionQueue' = <<>>
    /\ isConstructing' = FALSE
    /\ traversalStep' = -1
    /\ visited' = <<>>

(* a sidebar item that sets the tab only *)
SidebarClick_keepStep(tab) ==
    /\ activeTab' = tab
    /\ UNCHANGED <<traversalStep, traversalType, visited, userInput, customTree,
                   isConstructing, constructionQueue, idCounter>>
    /\ ticks' = -1
    /\ Commit("tab")

(* Sidebar items: every one of the five sets the tab and stops the steps *)
SidebarClick(tab) ==
    /\ activeTab' = tab
    /\ traversalStep' = -1
    /\ UNCHANGED <<traversalType, visited, userInput, customTree, isConstructing,
                   constructionQueue, idCounter>>
    /\ ticks' = -1
    /\ Commit("tab")

(* The three traversal kind buttons of the Traversals section *)
TraversalTypeClick(type) ==
    /\ activeTab = "traversals"
    /\ traversalType' = type
    /\ traversalStep' = -1
    /\ visited' = <<>>
    /\ UNCHANGED <<activeTab, userInput, customTree, isConstructing,
                   constructionQueue, idCounter>>
    /\ ticks' = -1
    /\ Commit("kind")

(* START VISUALIZATION, Traversals section *)
StartVisualizationClick ==
    /\ activeTab = "traversals"
    /\ startTraversal
    /\ UNCHANGED <<activeTab, traversalType, userInput, customTree, isConstructing,
                   constructionQueue, idCounter>>
    /\ ticks' = IF isConstructing THEN -1 ELSE 0
    /\ Commit("startTraversal")

(* RUN TRAVERSAL, rendered under the builder once a tree stands *)
RunTraversalClick ==
    /\ activeTab = "intro"
    /\ customTree # Null
    /\ ~isConstructing
    /\ startTraversal
    /\ UNCHANGED <<activeTab, traversalType, userInput, customTree, isConstructing,
                   constructionQueue, idCounter>>
    /\ ticks' = IF isConstructing THEN -1 ELSE 0
    /\ Commit("startTraversal")

(* Start Growth without its disabled attribute *)
StartGrowthButton_enabled == handleStartConstruction

(* Start Growth: disabled while constructing or while the text is empty *)
StartGrowthButton ==
    IF isConstructing \/ userInput = <<>>
    THEN UNCHANGED <<customTree, traversalStep, visited, idCounter,
                     constructionQueue, isConstructing>>
    ELSE handleStartConstruction

StartGrowthClick ==
    /\ activeTab = "intro"
    /\ StartGrowthButton
    /\ UNCHANGED <<activeTab, traversalType, userInput>>
    /\ ticks' = -1
    /\ Commit("startBuild")

(* Clear Tree *)
ClearTreeClick ==
    /\ activeTab = "intro"
    /\ handleReset
    /\ UNCHANGED <<activeTab, traversalType, userInput, idCounter>>
    /\ ticks' = -1
    /\ Commit("reset")

(* The text field: disabled while constructing *)
UserInputChange(text) ==
    /\ activeTab = "intro"
    /\ ~isConstructing
    /\ userInput' = text
    /\ UNCHANGED <<activeTab, traversalType, traversalStep, visited, customTree,
                   isConstructing, constructionQueue, idCounter, ticks>>
    /\ Commit("input")

-----------------------------------------------------------------------------
(* Timer callbacks *)

(* Array.prototype.slice(start), start >= 0 *)
slice(array, start) == SubSeq(array, start + 1, Len(array))

(* the insertion callback without clearNewFlags on the previous tree *)
ConstructionInsertTick_noClear ==
    /\ constructionTimer.kind = "insert"
    /\ LET nextVal == constructionTimer.nextVal
           r == insertBSTImmutable(customTree, nextVal, idCounter)
       IN  /\ customTree' = r.node
           /\ idCounter' = r.counter
    /\ constructionQueue' = slice(constructionQueue, 1)
    /\ UNCHANGED <<activeTab, traversalType, traversalStep, visited, userInput,
                   isConstructing, ticks>>
    /\ Commit("insertTick")

ConstructionInsertTick ==
    /\ constructionTimer.kind = "insert"
    /\ LET nextVal == constructionTimer.nextVal
           cleared == IF customTree # Null THEN clearNewFlags(customTree) ELSE Null
           r == insertBSTImmutable(cleared, nextVal, idCounter)
       IN  /\ customTree' = r.node
           /\ idCounter' = r.counter
    /\ constructionQueue' = slice(constructionQueue, 1)
    /\ UNCHANGED <<activeTab, traversalType, traversalStep, visited, userInput,
                   isConstructing, ticks>>
    /\ Commit("insertTick")

(* the settle callback without clearNewFlags *)
ConstructionSettleTick_noClear ==
    /\ constructionTimer.kind = "settle"
    /\ isConstructing' = FALSE
    /\ UNCHANGED <<activeTab, traversalType, traversalStep, visited, userInput, customTree,
                   constructionQueue, idCounter, ticks>>
    /\ Commit("settleTick")

ConstructionSettleTick ==
    /\ constructionTimer.kind = "settle"
    /\ customTree' = IF customTree # Null THEN clearNewFlags(customTree) ELSE Null
    /\ isConstructing' = FALSE
    /\ UNCHANGED <<activeTab, traversalType, traversalStep, visited, userInput,
                   constructionQueue, idCounter, ticks>>
    /\ Commit("settleTick")

TraversalTick ==
    /\ traversalTimer.pending
    /\ visited' = Append(visited, traversalTimer.id)
    /\ traversalStep' = traversalStep + 1
    /\ UNCHANGED <<activeTab, traversalType, userInput, customTree, isConstructing,
                   constructionQueue, idCounter>>
    /\ ticks' = IF ticks >= 0 THEN ticks + 1 ELSE -1
    /\ Commit("traversalTick")

(* The traversal effect's other branch: the step index has run off the order *)
TraversalEffectEnd ==
    /\ traversalStep >= 0
    /\ ~StepInBounds(traversalStep,
                     getTraversalOrder(SourceTree(activeTab, customTree), traversalType))
    /\ traversalStep' = -1
    /\ UNCHANGED <<activeTab, traversalType, visited, userInput, customTree,
                   isConstructing, constructionQueue, idCounter, ticks>>
    /\ Commit("traversalEnd")

-----------------------------------------------------------------------------
(* The application *)

Init ==
    /\ activeTab = "intro"
    /\ traversalType = "preorder"
    /\ traversalStep = -1
    /\ visited = <<>>
    /\ userInput = DefaultInput
    /\ customTree = Null
    /\ isConstructing = FALSE
    /\ constructionQueue = <<>>
    /\ idCounter = 1
    /\ constructionTimer = NoConstructionTimer
    /\ traversalTimer = NoTraversalTimer
    /\ last = [op |-> "init", building |-> FALSE, traversing |-> FALSE]
    /\ ticks = -1
    /\ afterReset = "no"
    /\ buildTicks = 0
    /\ issued = [on |-> FALSE, ever |-> {}, session |-> {}]
    /\ revealed = [on |-> TRUE, ids |-> {}]

Next ==
    \/ \E tab \in Tabs : SidebarClick(tab)
    \/ \E type \in TraversalTypes : TraversalTypeClick(type)
    \/ StartVisualizationClick
    \/ RunTraversalClick
    \/ StartGrowthClick
    \/ ClearTreeClick
    \/ \E text \in InputTexts : UserInputChange(text)
    \/ ConstructionInsertTick
    \/ ConstructionSettleTick
    \/ TraversalTick
    \/ TraversalEffectEnd

Spec == Init /\ [][Next]_vars

(* The application with the record of issued ids kept *)
InitSessions ==
    /\ activeTab = "intro"
    /\ traversalType = "preorder"
    /\ traversalStep = -1
    /\ visited = <<>>
    /\ userInput = DefaultInput
    /\ customTree = Null
    /\ isConstructing = FALSE
    /\ constructionQueue = <<>>
    /\ idCounter = 1
    /\ constructionTimer = NoConstructionTimer
    /\ traversalTimer = NoTraversalTimer
    /\ last = [op |-> "init", building |-> FALSE, traversing |-> FALSE]
    /\ ticks = -1
    /\ afterReset = "no"
    /\ buildTicks = 0
    /\ issued = [on |-> TRUE, ever |-> {}, session |-> {}]
    /\ revealed = [on |-> FALSE, ids |-> {}]

SpecSessions == InitSessions /\ [][Next]_vars

(* One build, from the state an accepted Start Growth leaves for a typed   *)
(* list of integers, driven by its timer alone.                            *)
InitBuild ==
    /\ activeTab = "intro"
    /\ traversalType = "preorder"
    /\ traversalStep = -1
    /\ visited = <<>>
    /\ userInput \in {FormatList(vs) : vs \in BuildLists} \cup {ScenarioInput}
    /\ customTree = Null
    /\ isConstructing = TRUE
    /\ constructionQueue = ParseValues(userInput)
    /\ idCounter = 1
    /\ constructionTimer = ConstructionEffect(isConstructing, constructionQueue)
    /\ traversalTimer = NoTraversalTimer
    /\ last = [op |-> "startBuild", building |-> FALSE, traversing |-> FALSE]
    /\ ticks = -1
    /\ afterReset = "no"
    /\ buildTicks = 0
    /\ issued = [on |-> FALSE, ever |-> {}, session |-> {}]
    /\ revealed = [on |-> TRUE, ids |-> {}]

NextBuild ==
    \/ ConstructionInsertTick
    \/ ConstructionSettleTick

SpecBuild == InitBuild /\ [][NextBuild]_vars

(* setTimeout callbacks are run once their delay has passed *)
SpecBuildFair == InitBuild /\ [][NextBuild]_vars /\ WF_vars(NextBuild)

TypeOK ==
    /\ activeTab \in Tabs
    /\ traversalType \in TraversalTypes
    /\ traversalStep \in (-1)..7
    /\ isConstructing \in BOOLEAN
    /\ idCounter \in 1..8
    /\ ticks \in (-1)..7

-----------------------------------------------------------------------------
(* Vocabulary of the properties *)

RECURSIVE Nodes(_)
Nodes(t) == IF t = Null THEN {} ELSE {t} \cup Nodes(t.left) \cup Nodes(t.right)

RECURSIVE Size(_)
Size(t) == IF t = Null THEN 0 ELSE 1 + Size(t.left) + Size(t.right)

NodeValues(t) == {n.value : n \in Nodes(t)}

NodeIds(t) == {n.id : n \in Nodes(t)}

(* shape, values and ids of a tree, without the isNew flags *)
RECURSIVE Skeleton(_)
Skeleton(t) ==
    IF t = Null THEN Null
    ELSE [id |-> t.id, value |-> t.value, left |-> Skeleton(t.left), right |-> Skeleton(t.right)]

NewNodes(t) == {n \in Nodes(t) : n.isNew}

BSTOrdered(t) ==
    \A n \in Nodes(t) :
        /\ \A m \in Nodes(n.left) : m.value < n.value
        /\ \A m \in Nodes(n.right) : m.value > n.value

-----------------------------------------------------------------------------
(* Properties *)

(* C1: whatever integers a build inserts one after another, starting from  *)
(* the empty tree, every node of the tree has only smaller values in its   *)
(* left subtree and only greater values in its right subtree.              *)
C1_BSTOrdering == BSTOrdered(customTree)

C1_Witness ==
    /\ ~isConstructing
    /\ customTree # Null
    /\ customTree.left # Null
    /\ customTree.right # Null
    /\ Size(customTree) = 4

(* C2: in every state of a build session no two nodes of the custom tree   *)
(* carry the same id.                                                      *)
C2_UniqueIds == Cardinality(NodeIds(customTree)) = Size(customTree)

C2_Witness ==
    /\ userInput = DuplicateInput
    /\ last.op = "insertTick"
    /\ Size(customTree) = 3
    /\ idCounter = 4

(* C3: an insertion tick whose value is already in the tree leaves shape,  *)
(* values and ids as they were, creates no node, takes no id from the      *)
(* allocator and leaves no node flagged isNew.                             *)
C3_DuplicateNoOp ==
    [][(last'.op = "insertTick" /\ constructionTimer.nextVal \in NodeValues(customTree))
         => /\ Skeleton(customTree') = Skeleton(customTree)
            /\ Size(customTree') = Size(customTree)
            /\ idCounter' = idCounter
            /\ NewNodes(customTree') = {}]_vars

C3_Witness ==
    /\ last.op = "insertTick"
    /\ Size(customTree) >= 2
    /\ NewNodes(customTree) = {}
    /\ idCounter = Size(customTree) + 1

(* C4: a traversal started on an N-node tree and disturbed by no request   *)
(* has fired exactly N ticks when the step index is back at -1, and the    *)
(* visited sequence then holds exactly N ids.                              *)
C4_TraversalTicks ==
    (ticks >= 0 /\ traversalStep = -1)
        => /\ ticks = Size(SourceTree(activeTab, customTree))
           /\ Len(visited) = Size(SourceTree(activeTab, customTree))

C4_Witness ==
    /\ ticks = 4
    /\ traversalStep = -1
    /\ activeTab = "intro"
    /\ last.op = "traversalEnd"

(* C5: a build and a traversal are never active together: while            *)
(* isConstructing holds the step index is -1.                              *)
C5_BuildExcludesTraversal == isConstructing => traversalStep = -1

C5_Witness ==
    /\ last.op = "startBuild"
    /\ last.traversing
    /\ isConstructing

(* C6: a start-traversal request made while a build is in progress, the    *)
(* settle phase included, changes nothing, and the build's tick stays      *)
(* pending.                                                                *)
C6_TraversalRejectedWhileBuilding ==
    [][(last'.op = "startTraversal" /\ isConstructing)
         => /\ UNCHANGED <<customTree, constructionQueue, visited, traversalStep,
                           isConstructing, idCounter, constructionTimer, traversalTimer>>
            /\ constructionTimer.kind # "none"]_vars

C6_Witness ==
    /\ last.op = "startTraversal"
    /\ last.building
    /\ isConstructing
    /\ constructionQueue = <<>>

(* C7: a start-build request whose text holds no parseable integer changes *)
(* neither tree, queue, running flag, step index, visited sequence nor     *)
(* the id allocator.                                                       *)
C7_InvalidInputRejected ==
    [][(last'.op = "startBuild" /\ ParseValues(userInput) = <<>>)
         => UNCHANGED <<customTree, constructionQueue, isConstructing, traversalStep,
                        visited, idCounter>>]_vars

C7_Witness ==
    /\ last.op = "startBuild"
    /\ ~last.building
    /\ userInput = InvalidInput
    /\ customTree # Null
    /\ visited # <<>>

(* C8: a start-build request made while a build is in progress changes     *)
(* neither the tree built so far, the remaining queue nor the id           *)
(* allocator, and the build's tick stays pending.                          *)
C8_BuildRejectedWhileBuilding ==
    [][(last'.op = "startBuild" /\ isConstructing)
         => /\ UNCHANGED <<customTree, constructionQueue, idCounter, isConstructing,
                           constructionTimer>>
            /\ constructionTimer.kind # "none"]_vars

C8_Witness ==
    /\ last.op = "startBuild"
    /\ last.building
    /\ customTree # Null
    /\ constructionQueue # <<>>

(* C9: while a traversal is running, a kind switch, a tab switch and a     *)
(* reset each leave the visited sequence empty and the step index at -1.   *)
C9_ProgressReinitialized ==
    [][(traversalStep >= 0 /\ last'.op \in {"kind", "tab", "reset"})
         => (visited' = <<>> /\ traversalStep' = -1)]_vars

IdsFunctional(triples) == \A a, b \in triples : a[1] = b[1] => a = b

(* C11: each effect's pending tick is the one set for the current state,   *)
(* none is left over from an earlier state; and from a reset until the     *)
(* next start-build or start-traversal request the custom tree, the queue  *)
(* and the visited sequence stay empty and no tick is pending.             *)
C11_NoStaleTick ==
    /\ constructionTimer = ConstructionEffect(isConstructing, constructionQueue)
    /\ traversalTimer = TraversalEffect(traversalStep, traversalType, activeTab, customTree)
    /\ afterReset # "no"
        => /\ customTree = Null
           /\ constructionQueue = <<>>
           /\ visited = <<>>
           /\ constructionTimer = NoConstructionTimer
           /\ traversalTimer = NoTraversalTimer

C11_Witness ==
    /\ afterReset = "building"
    /\ last.op = "tab"
    /\ activeTab = "traversals"

(* C12 as stated: an id given to a node is never given to a different      *)
(* node (another value or another place), in the same tree or in a tree    *)
(* built later in the page session.                                        *)
C12_IdsNeverReused == IdsFunctional(issued.ever)

(* C12: between one accepted start-build and the next, an id given to a    *)
(* node is never given to a different node; an accepted start-build        *)
(* starts the ids again at "1".                                            *)
C12_IdsNotReusedWithinSession ==
    /\ IdsFunctional(issued.session)
    /\ (customTree # Null /\ issued.on) => <<"1", customTree.value, <<>>>> \in issued.session

C12_Witness ==
    /\ Cardinality(issued.session) >= 2
    /\ \E a \in issued.ever : \E b \in issued.session : a[1] = b[1] /\ a # b

(* a tree reduced to its values and shape *)
RECURSIVE ValueShape(_)
ValueShape(t) ==
    IF t = Null THEN Null
    ELSE [value |-> t.value, left |-> ValueShape(t.left), right |-> ValueShape(t.right)]

ValueNode(v, l, r) == [value |-> v, left |-> l, right |-> r]

(* binary-search-tree insertion on value shapes; a value present is left alone *)
RECURSIVE BSTInsert(_, _)
BSTInsert(shape, v) ==
    IF shape = Null THEN ValueNode(v, Null, Null)
    ELSE IF v < shape.value THEN ValueNode(shape.value, BSTInsert(shape.left, v), shape.right)
    ELSE IF v > shape.value THEN ValueNode(shape.value, shape.left, BSTInsert(shape.right, v))
    ELSE shape

(* the left-to-right fold of BSTInsert over a list, from the empty tree *)
RECURSIVE FoldInsert(_)
FoldInsert(vals) ==
    IF vals = <<>> THEN Null
    ELSE BSTInsert(FoldInsert(SubSeq(vals, 1, Len(vals) - 1)), vals[Len(vals)])

(* C13: a build takes its values from the head of the queue, one per tick, *)
(* in the order of the input text: after k ticks the queue is the parsed   *)
(* list without its first k values and the tree is the fold of BST         *)
(* insertion over those k values; "50, 30, 70, 20" ends as                 *)
(* 50(left=30(left=20), right=70).                                         *)
C13_BuildIsFoldOfInput ==
    /\ [](LET vals == ParseValues(userInput)
              k == Len(vals) - Len(constructionQueue)
          IN  /\ k >= 0
              /\ constructionQueue = SubSeq(vals, k + 1, Len(vals))
              /\ ValueShape(customTree) = FoldInsert(SubSeq(vals, 1, k))
              /\ userInput = ScenarioInput => vals = <<50, 30, 70, 20>>
              /\ (userInput = ScenarioInput /\ constructionQueue = <<>>)
                    => ValueShape(customTree) =
                         ValueNode(50, ValueNode(30, ValueNode(20, Null, Null), Null),
                                       ValueNode(70, Null, Null)))
    /\ [][last'.op = "insertTick"
            => /\ constructionQueue # <<>>
               /\ constructionQueue' = Tail(constructionQueue)
               /\ Head(constructionQueue) \in NodeValues(customTree')]_vars

C13_Witness ==
    /\ userInput = ScenarioInput
    /\ ~isConstructing
    /\ Size(customTree) = 4

(* C14: at most one node of the custom tree is flagged isNew in any state; *)
(* right after an insertion tick for a value not yet in the tree the one   *)
(* flagged node is the node holding that value, and a node flagged by an   *)
(* earlier tick is flagged no more.                                        *)
C14_OneNewNode ==
    /\ [](Cardinality(NewNodes(customTree)) <= 1)
    /\ [][(last'.op = "insertTick" /\ constructionTimer.nextVal \notin NodeValues(customTree))
            => /\ Cardinality(NewNodes(customTree')) = 1
               /\ \A n \in NewNodes(customTree') :
                     /\ n.value = constructionTimer.nextVal
                     /\ n.id \notin NodeIds(customTree)
               /\ \A n \in Nodes(customTree') :
                     n.id \in {m.id : m \in NewNodes(customTree)} => ~n.isNew]_vars

C14_Witness ==
    /\ last.op = "insertTick"
    /\ Size(customTree) = 4
    /\ \E n \in NewNodes(customTree) : n.value = 20

(* the values of the nodes that a sequence of ids names in a tree *)
ValuesOf(ids, t) == [i \in 1..Len(ids) |-> (CHOOSE n \in Nodes(t) : n.id = ids[i]).value]

Position(order, id) == CHOOSE i \in 1..Len(order) : order[i] = id

(* the order lists a node before, between or after its two subtrees, and   *)
(* the left subtree before the right                                       *)
OrderRespects(t, type) ==
    LET order == getTraversalOrder(t, type)
        pos(id) == Position(order, id)
    IN  /\ Len(order) = Size(t)
        /\ \A n \in Nodes(t) :
              /\ \A l \in NodeIds(n.left) : \A r \in NodeIds(n.right) : pos(l) < pos(r)
              /\ \A l \in NodeIds(n.left) :
                    IF type = "preorder" THEN pos(n.id) < pos(l) ELSE pos(l) < pos(n.id)
              /\ \A r \in NodeIds(n.right) :
                    IF type = "postorder" THEN pos(r) < pos(n.id) ELSE pos(n.id) < pos(r)

(* C15: on the preset binary tree a completed traversal has visited the    *)
(* values 10,5,2,7,15,12,20 in preorder, 2,5,7,10,12,15,20 in inorder and  *)
(* 2,7,5,12,20,15,10 in postorder; on every tree shown, preorder lists a   *)
(* node before its left and right subtrees, inorder between them and       *)
(* postorder after both.                                                   *)
C15_TraversalOrders ==
    /\ (activeTab = "traversals" /\ ticks = 7 /\ traversalStep = -1)
        => /\ visited = getTraversalOrder(BinaryPreset, traversalType)
           /\ ValuesOf(visited, BinaryPreset) =
                 IF traversalType = "preorder" THEN <<10, 5, 2, 7, 15, 12, 20>>
                 ELSE IF traversalType = "inorder" THEN <<2, 5, 7, 10, 12, 15, 20>>
                 ELSE <<2, 7, 5, 12, 20, 15, 10>>
    /\ \A type \in TraversalTypes :
          /\ OrderRespects(BinaryPreset, type)
          /\ OrderRespects(customTree, type)
    /\ getTraversalOrder(Null, traversalType) = <<>>

C15_Witness ==
    /\ activeTab = "traversals"
    /\ traversalType = "postorder"
    /\ ticks = 7
    /\ traversalStep = -1
    /\ Size(customTree) = 7

(* the positioned children of a positioned node, left to right *)
Kids(p) ==
    p.children
    \o (IF p.left # Null THEN <<p.left>> ELSE <<>>)
    \o (IF p.middle # Null THEN <<p.middle>> ELSE <<>>)
    \o (IF p.right # Null THEN <<p.right>> ELSE <<>>)

(* two spans share at most an end point *)
SpansApart(a, b) == FracLessEq(a.xEnd, b.xStart) \/ FracLessEq(b.xEnd, a.xStart)

RECURSIVE SiblingSpansApart(_)
SiblingSpansApart(p) ==
    LET kids == Kids(p)
    IN  /\ \A i, j \in 1..Len(kids) : i < j => SpansApart(kids[i], kids[j])
        /\ \A i \in 1..Len(kids) : SiblingSpansApart(kids[i])

RECURSIVE XWithin(_, _)
XWithin(p, width) ==
    /\ FracLessEq(FracOfInt(0), p.x)
    /\ FracLessEq(p.x, FracOfInt(width))
    /\ \A i \in 1..Len(Kids(p)) : XWithin(Kids(p)[i], width)

LayoutSound(p, width) == SiblingSpansApart(p) /\ XWithin(p, width)

(* C16: in every tree drawn - the gallery presets of the Tree Types        *)
(* section, the preset binary tree of the Traversals section, the custom   *)
(* tree of the builder - the spans of two sibling subtrees do not overlap  *)
(* and every x lies within the canvas width.                               *)
C16_LayoutNonOverlap ==
    /\ activeTab = "types"
        => \A key \in GalleryKeys : LayoutSound(MiniTree(TREE_PRESETS[key]), MiniCanvasWidth)
    /\ activeTab = "traversals" => LayoutSound(TreeWithPos(BinaryPreset), CanvasWidth)
    /\ (activeTab = "intro" /\ customTree # Null)
        => LayoutSound(TreeWithPos(customTree), CanvasWidth)

(* C17: right after an accepted start-build request the custom tree is     *)
(* absent, the step index is -1, the visited sequence is empty, the queue  *)
(* holds the parsed values in input order, the running flag is set and     *)
(* the id allocator is back at 1; the first node inserted gets id "1".     *)
C17_AcceptedStartBuild ==
    [][/\ (last'.op = "startBuild" /\ ~isConstructing /\ ParseValues(userInput) # <<>>)
            => /\ customTree' = Null
               /\ traversalStep' = -1
               /\ visited' = <<>>
               /\ constructionQueue' = ParseValues(userInput)
               /\ userInput = DefaultInput
                     => constructionQueue' = <<50, 30, 70, 20, 40, 60, 80>>
               /\ userInput = DuplicateInput => constructionQueue' = <<2, 1, 2, -3>>
               /\ isConstructing'
               /\ idCounter' = 1
               /\ constructionTimer'.kind = "insert"
       /\ (last'.op = "insertTick" /\ customTree = Null)
            => /\ customTree'.id = "1"
               /\ customTree'.value = constructionTimer.nextVal]_vars

C17_Witness ==
    /\ last.op = "startBuild"
    /\ ~last.building
    /\ last.traversing
    /\ isConstructing
    /\ userInput = DuplicateInput

(* C18: a build of k values that nothing interrupts returns to idle: the   *)
(* queue is empty after exactly k insertion ticks, one settle tick later   *)
(* isConstructing is false and no node is flagged isNew, and the settle    *)
(* tick leaves ids, values and shape of the tree as they were.             *)
C18_BuildSettles ==
    /\ <>(~isConstructing)
    /\ [](LET k == Len(ParseValues(userInput))
          IN  /\ (isConstructing /\ constructionQueue # <<>>) => buildTicks < k
              /\ (isConstructing /\ constructionQueue = <<>>) => buildTicks = k
              /\ ~isConstructing
                    => /\ buildTicks = k + 1
                       /\ constructionQueue = <<>>
                       /\ NewNodes(customTree) = {}
                       /\ constructionTimer = NoConstructionTimer)
    /\ [][last'.op = "settleTick"
            => /\ Skeleton(customTree') = Skeleton(customTree)
               /\ ~isConstructing'
               /\ constructionQueue = <<>>]_vars

C18_Witness ==
    /\ ~isConstructing
    /\ buildTicks = 5
    /\ Size(customTree) = 4
    /\ last.op = "settleTick"

(* C19: while the step index s is not -1, s is at most the length of the   *)
(* traversal order of the active tree for the active kind and the visited  *)
(* sequence is the first s ids of that order; when s has reached the       *)
(* length the step index becomes -1, and the visited sequence, then the    *)
(* full order, stays as it is until the next reset, kind switch,           *)
(* start-build or start-traversal.                                         *)
C19_VisitedIsPrefix ==
    /\ [](traversalStep >= 0
            => LET order == getTraversalOrder(SourceTree(activeTab, customTree), traversalType)
               IN  /\ traversalStep <= Len(order)
                   /\ visited = SubSeq(order, 1, traversalStep))
    /\ [][/\ last'.op = "traversalEnd"
               => /\ traversalStep' = -1
                  /\ visited' = getTraversalOrder(SourceTree(activeTab, customTree),
                                                  traversalType)
          /\ (traversalStep = -1
              /\ last'.op \notin {"reset", "kind", "startBuild", "startTraversal"})
               => /\ visited' = visited
                  /\ traversalStep' = -1]_vars

C19_Witness ==
    /\ last.op = "input"
    /\ activeTab = "intro"
    /\ traversalStep = -1
    /\ ticks = 3
    /\ visited = getTraversalOrder(customTree, traversalType)

(* C20: an insertion tick keeps every node of the tree with its id, its    *)
(* value, its parent and its side, and adds at most one node, a leaf.      *)
C20_InsertKeepsNodes ==
    [][last'.op = "insertTick"
         => /\ NodeTriples(customTree, <<>>) \subseteq NodeTriples(customTree', <<>>)
            /\ Size(customTree') <= Size(customTree) + 1
            /\ \A n \in Nodes(customTree') :
                  n.id \notin NodeIds(customTree) => (n.left = Null /\ n.right = Null)]_vars

C20_Witness ==
    /\ last.op = "insertTick"
    /\ Size(customTree) = 4
    /\ customTree.left # Null
    /\ customTree.left.right # Null
    /\ customTree.left.right.isNew

(* the sequence order lists every id of t once and nothing else *)
ListsEachOnce(order, t) ==
    /\ \A i \in 1..Len(order) : order[i] \in NodeIds(t)
    /\ \A id \in NodeIds(t) : Cardinality({i \in 1..Len(order) : order[i] = id}) = 1
    /\ Len(order) = Size(t)

(* C21: of every tree the builder produces, the inorder order lists every  *)
(* node id exactly once with strictly ascending node values, and preorder  *)
(* and postorder list the same ids, each exactly once.                     *)
C21_OrdersListEveryNodeOnce ==
    LET inorder == getTraversalOrder(customTree, "inorder")
        values == ValuesOf(inorder, customTree)
    IN  /\ \A type \in TraversalTypes :
              ListsEachOnce(getTraversalOrder(customTree, type), customTree)
        /\ \A i, j \in 1..Len(values) : i < j => values[i] < values[j]

C21_Witness ==
    /\ last.op = "settleTick"
    /\ ~isConstructing
    /\ Size(customTree) = 4
    /\ customTree.left # Null
    /\ customTree.right # Null
    /\ Len(getTraversalOrder(customTree, "inorder")) = 4

(* C22: on the builder's tab a node of the custom tree has its id in the   *)
(* visited sequence only if a traversal of the custom tree has revealed    *)
(* it since the tree was built; ids visited in a traversal of the preset   *)
(* binary tree do not mark custom-tree nodes after a tab switch.           *)
C22_VisitedOnlyIfRevealed ==
    (activeTab = "intro" /\ customTree # Null)
        => \A id \in NodeIds(customTree) :
              (\E i \in 1..Len(visited) : visited[i] = id) => id \in revealed.ids

====
